---- MODULE Spec2Model ----
(***************************************************************************)
(* Quiz competition: session lifecycle, participation and answer store.    *)
(*                                                                         *)
(* The relational store holds one QuizSession row, the Question rows of    *)
(* its quiz, the SessionParticipant rows and the StudentAnswer rows.       *)
(* Every client request runs in its own SQLAlchemy session (a process      *)
(* below); each SELECT and each COMMIT of a request is one step, so        *)
(* requests of different clients interleave between statements.            *)
(*                                                                         *)
(* ORM behaviour that the service code relies on and that is modelled:     *)
(*  - a row loaded in a request keeps its loaded attribute values until    *)
(*    the request commits or refreshes it (identity map); a second         *)
(*    query for the same row does not overwrite them;                      *)
(*  - a commit writes only the columns whose assigned value differs from   *)
(*    the loaded value;                                                    *)
(*  - the refresh that follows a commit is taken in the same step.         *)
(* Of a loaded row a request keeps only the attributes that its remaining  *)
(* statements read.                                                        *)
(*                                                                         *)
(* Timestamps are whole seconds.  The score and the percentage are         *)
(* computed in Python floats (IEEE 754 binary64); the float operations     *)
(* are modelled bit for bit on their mantissas.                            *)
(***************************************************************************)
EXTENDS Integers, Sequences, FiniteSets

\* ---------------------------------------------------------------- bounds
NumProcs     == 2   \* concurrent client requests (database sessions)
NumStudents  == 1   \* student user ids 1..NumStudents
MaxQuestions == 2   \* a quiz has 0..MaxQuestions questions
NumOptions   == 2   \* option ids 1..NumOptions of a question
MaxTime      == 2   \* the clock runs 1..MaxTime
MaxKeys      == 1   \* (student, question) keys that get answers
MaxTimeLimit == 30  \* scored time limits MIN_TIME_LIMIT..MaxTimeLimit
MaxRows      == 3   \* answer rows of a ranked session
MaxCollisions == 1  \* stored codes an overlapping create_session draws
MaxLength    == 3   \* questions of a quiz that is advanced through

\* ------------------------------------------------------------- constants
NULL == 0           \* SQL NULL / Python None for ids and timestamps

PENDING == "pending"
ACTIVE  == "active"
CLOSED  == "closed"
SessionStatus == {PENDING, ACTIVE, CLOSED}

Procs    == 1..NumProcs
Students == 1..NumStudents
Options  == 1..NumOptions

SESSION_ID   == 1                      \* id of the stored session
UNKNOWN_ID   == 2                      \* an id no session has
SESSION_CODE == "12345"                \* join code of the stored session
UNKNOWN_CODE == "00000"                \* a code no session has

CREATED_AT == 1                        \* created_at of the stored session

\* config.py
BASE_POINTS == 1000
DEFAULT_QUESTION_TIME == 30

\* shared/session_code.py
MAX_ATTEMPTS == 100

\* the time limits the question form accepts
MIN_TIME_LIMIT == 10
MAX_TIME_LIMIT == 300

VARIABLES
  serial,         \* TRUE: requests are issued one at a time, each after
                  \* the previous one returned; FALSE: they overlap
  quiz_sessions,  \* the QuizSession rows that create_session inserted
  current_question_index, \* st.session_state of each student's
                  \* participation view
  question_order, \* Question table: question id -> question_order
  time_limit,     \* Question table: question id -> time_limit (seconds)
  is_correct,     \* QuestionOption table: option id -> is_correct
  session,        \* the QuizSession row
  participants,   \* SessionParticipant rows, in insertion order
  answers,        \* StudentAnswer rows, in insertion order
  now,            \* the clock read by datetime.utcnow()
  pc,             \* per request: the statement it executes next
  loc,            \* per request: its arguments and loaded ORM objects
  returned        \* what the step just taken returned to its caller, if any

vars == <<serial, quiz_sessions, current_question_index, question_order, time_limit, is_correct, session, participants, answers, now, pc, loc, returned>>

\* ------------------------------------------------------------ QuizSession
QuizSession(status, current_question_id, start_time, end_time) ==
  [status |-> status, current_question_id |-> current_question_id,
   start_time |-> start_time, end_time |-> end_time,
   created_at |-> CREATED_AT]

\* ---------------------------------------------------------------- helpers
QuestionIds == DOMAIN question_order

RECURSIVE SortByOrder(_)
SortByOrder(ids) ==
  IF ids = {} THEN <<>>
  ELSE LET first == CHOOSE q \in ids :
                      \A r \in ids : question_order[q] <= question_order[r]
       IN <<first>> \o SortByOrder(ids \ {first})

\* the quiz's question ids in id order, whatever their question_order
get_questions_by_id == [i \in 1..Cardinality(QuestionIds) |-> i]

\* QuestionDataAccess.get_questions_by_quiz: the quiz's question ids,
\* ordered by question_order
get_questions_by_quiz == SortByOrder(QuestionIds)

\* a request's local state: the status it was called on, the loaded
\* attributes of the session or answer row, the loaded rows of a query,
\* and its arguments
NoLoc == [status |-> "none", start_time |-> NULL, end_time |-> NULL,
          current_question_id |-> NULL,
          student |-> NULL, question |-> NULL, option |-> NULL,
          existing |-> NULL, loaded_option |-> NULL, rows |-> <<>>,
          all_answers |-> <<>>, leaderboard |-> <<>>,
          attempts |-> 0, session_code |-> NULL]

\* what a call returns: the operation, the outcome (the
\* return statement reached), the call's arguments and loaded values, and
\* the value returned by a computation
NoResult == [op |-> "none", outcome |-> "none", call |-> NoLoc, value |-> NULL]

Result(op, outcome, call) ==
  [op |-> op, outcome |-> outcome, call |-> call, value |-> NULL]

Idle(p) == pc[p] = "idle"

\* request p can issue a call
CanCall(p) == Idle(p) /\ (serial => \A q \in Procs : Idle(q))

\* a request returns: its loaded objects are dropped with its db session
Return(p, op, outcome, call) ==
  /\ pc' = [pc EXCEPT ![p] = "idle"]
  /\ loc' = [loc EXCEPT ![p] = NoLoc]
  /\ returned' = Result(op, outcome, call)

\* a request returns a computed value
ReturnValue(p, op, call, value) ==
  /\ pc' = [pc EXCEPT ![p] = "idle"]
  /\ loc' = [loc EXCEPT ![p] = NoLoc]
  /\ returned' = [op |-> op, outcome |-> "success", call |-> call,
                  value |-> value]

Goto(p, label, l) ==
  /\ pc' = [pc EXCEPT ![p] = label]
  /\ loc' = [loc EXCEPT ![p] = l]
  /\ returned' = NoResult

\* ------------------------------------------------------------------- Init
Permutations(n) ==
  {f \in [1..n -> 1..n] : \A i, j \in 1..n : f[i] = f[j] => i = j}

InitStore(one_at_a_time) ==
  /\ serial = one_at_a_time
  /\ quiz_sessions = <<>>
  /\ current_question_index = [s \in Students |-> 0]
  /\ \E n \in 0..MaxQuestions : question_order \in Permutations(n)
  /\ time_limit = [q \in QuestionIds |-> DEFAULT_QUESTION_TIME]
  /\ is_correct = [o \in Options |-> o = 1]
  /\ session = QuizSession(PENDING, NULL, NULL, NULL)
  /\ participants = <<>>
  /\ answers = <<>>
  /\ now = 1
  /\ pc = [p \in Procs |-> "idle"]
  /\ loc = [p \in Procs |-> NoLoc]
  /\ returned = NoResult

Init == \E one_at_a_time \in BOOLEAN : InitStore(one_at_a_time)

\* overlapping requests
ConcurrentInit == InitStore(FALSE)

\* one request at a time
SerialInit == InitStore(TRUE)

\* ------------------------------------------------------------------ clock
Tick ==
  /\ now < MaxTime
  /\ now' = now + 1
  /\ returned' = NoResult
  /\ UNCHANGED <<serial, quiz_sessions, current_question_index, question_order, time_limit, is_correct, session,
                 participants, answers, pc, loc>>

\* ----------------------------------------------------- SessionDataAccess
\* an update_status that stamps end_time on every change to CLOSED
update_status_restamps_end(loaded_status, loaded_start_time, loaded_end_time, status) ==
  [session EXCEPT
     !.status     = IF status # loaded_status THEN status ELSE @,
     !.start_time = IF status = ACTIVE /\ loaded_start_time = NULL
                    THEN now ELSE @,
     !.end_time   = IF status = CLOSED THEN now ELSE @]

\* an update_status that stamps start_time on every change to ACTIVE
update_status_restamps_start(loaded_status, loaded_start_time, loaded_end_time, status) ==
  [session EXCEPT
     !.status     = IF status # loaded_status THEN status ELSE @,
     !.start_time = IF status = ACTIVE THEN now ELSE @,
     !.end_time   = IF status = CLOSED /\ loaded_end_time = NULL
                    THEN now ELSE @]

\* update_status, from the assignment to the refresh: the columns the
\* commit writes, given the attribute values loaded in this request
update_status(loaded_status, loaded_start_time, loaded_end_time, status) ==
  [session EXCEPT
     !.status     = IF status # loaded_status THEN status ELSE @,
     !.start_time = IF status = ACTIVE /\ loaded_start_time = NULL
                    THEN now ELSE @,
     !.end_time   = IF status = ACTIVE /\ loaded_start_time = NULL THEN @
                    ELSE IF status = CLOSED /\ loaded_end_time = NULL
                    THEN now ELSE @]

\* an update_current_question whose assignment is never committed
update_current_question_uncommitted(loaded_current_question_id, question_id) ==
  session

\* update_current_question, from the assignment to the refresh
update_current_question(loaded_current_question_id, question_id) ==
  [session EXCEPT
     !.current_question_id = IF question_id # loaded_current_question_id
                             THEN question_id ELSE @]

\* -------------------------------------------- SessionService.start_session
\* a start that does not look at the number of questions
start_session_load_unchecked(p) ==
  /\ CanCall(p)
  /\ \E session_id \in {SESSION_ID, UNKNOWN_ID} :
       IF session_id # SESSION_ID
       THEN Return(p, "start", "Session not found", NoLoc)
       ELSE Goto(p, "start_status",
                 [NoLoc EXCEPT !.status = session.status,
                               !.start_time = session.start_time])
  /\ UNCHANGED <<serial, quiz_sessions, current_question_index, question_order, time_limit, is_correct, session, participants, answers, now>>

\* lines 62-77: load the session and the quiz's questions
start_session_load(p) ==
  /\ CanCall(p)
  /\ \E session_id \in {SESSION_ID, UNKNOWN_ID} :
       IF session_id # SESSION_ID
       THEN Return(p, "start", "Session not found", NoLoc)
       ELSE IF get_questions_by_quiz = <<>>
       THEN Return(p, "start", "Quiz has no questions",
                   [NoLoc EXCEPT !.status = session.status])
       ELSE Goto(p, "start_status",
                 [NoLoc EXCEPT !.status = session.status,
                               !.start_time = session.start_time])
  /\ UNCHANGED <<serial, quiz_sessions, current_question_index, question_order, time_limit, is_correct, session, participants, answers, now>>

\* line 80: update_status(session_id, ACTIVE)
start_session_status(p) ==
  /\ pc[p] = "start_status"
  /\ session' = update_status(loc[p].status, loc[p].start_time, NULL, ACTIVE)
  /\ Goto(p, "start_question",
          [NoLoc EXCEPT !.status = loc[p].status,
                        !.current_question_id = session'.current_question_id])
  /\ UNCHANGED <<serial, quiz_sessions, current_question_index, question_order, time_limit, is_correct, participants, answers, now>>

\* lines 83-88: update_current_question(session_id, questions[0].id)
start_session_question(p) ==
  /\ pc[p] = "start_question"
  /\ session' = update_current_question(loc[p].current_question_id,
                                        get_questions_by_quiz[1])
  /\ Return(p, "start", "success", loc[p])
  /\ UNCHANGED <<serial, quiz_sessions, current_question_index, question_order, time_limit, is_correct, participants, answers, now>>

\* ---------------------------------------------- SessionService.end_session
\* update_status line 75: load the session
end_session_load(p) ==
  /\ CanCall(p)
  /\ \E session_id \in {SESSION_ID, UNKNOWN_ID} :
       IF session_id # SESSION_ID
       THEN Return(p, "end", "Session not found", NoLoc)
       ELSE Goto(p, "end_status",
                 [NoLoc EXCEPT !.status = session.status,
                               !.end_time = session.end_time])
  /\ UNCHANGED <<serial, quiz_sessions, current_question_index, question_order, time_limit, is_correct, session, participants, answers, now>>

\* update_status lines 79-89 with status CLOSED
end_session_status(p) ==
  /\ pc[p] = "end_status"
  /\ session' = update_status(loc[p].status, NULL, loc[p].end_time, CLOSED)
  /\ Return(p, "end", "success", loc[p])
  /\ UNCHANGED <<serial, quiz_sessions, current_question_index, question_order, time_limit, is_correct, participants, answers, now>>

\* --------------------------------------------- SessionService.next_question
\* a lookup that takes the first question for the current one
current_idx_first(questions, current_question_id) == 0

\* a lookup that never finds the current question
current_idx_not_found(questions, current_question_id) == -1

\* index of the current question in the ordered list, -1 when not found,
\* 0-based as in the code (lines 123-128)
current_idx(questions, current_question_id) ==
  IF current_question_id # NULL
     /\ \E i \in 1..Len(questions) : questions[i] = current_question_id
  THEN (CHOOSE i \in 1..Len(questions) : questions[i] = current_question_id) - 1
  ELSE -1

\* lines 112-133: load the session and the questions, find the next one
next_question_load(p) ==
  /\ CanCall(p)
  /\ \E session_id \in {SESSION_ID, UNKNOWN_ID} :
       IF session_id # SESSION_ID
       THEN Return(p, "next", "Session not found", NoLoc)
       ELSE LET questions == get_questions_by_quiz
                next_idx == current_idx(questions, session.current_question_id) + 1
            IN IF next_idx >= Len(questions)
               THEN Return(p, "next", "No more questions",
                           [NoLoc EXCEPT !.status = session.status])
               ELSE Goto(p, "next_update",
                         [NoLoc EXCEPT !.status = session.status,
                            !.current_question_id = session.current_question_id,
                            !.question = questions[next_idx + 1]])
  /\ UNCHANGED <<serial, quiz_sessions, current_question_index, question_order, time_limit, is_correct, session, participants, answers, now>>

\* lines 135-138: update_current_question(session_id, next_question.id)
next_question_update(p) ==
  /\ pc[p] = "next_update"
  /\ session' = update_current_question(loc[p].current_question_id,
                                        loc[p].question)
  /\ Return(p, "next", "success", loc[p])
  /\ UNCHANGED <<serial, quiz_sessions, current_question_index, question_order, time_limit, is_correct, participants, answers, now>>

\* ------------------------------------------- SessionService.create_session
\* the codes random.choices draws, out of the 10^5 codes of five digits:
\* the code of the stored session and two more
DrawnCodes == {SESSION_CODE, "11111", "22222"}

\* the session codes of the quiz_sessions table
StoredCodes ==
  {SESSION_CODE}
  \cup {quiz_sessions[i].session_code : i \in 1..Len(quiz_sessions)}

\* SessionDataAccess.session_code_exists
session_code_exists(code) == code \in StoredCodes

\* a loop that goes round once more
may_attempt_inclusive(attempts) == attempts <= MAX_ATTEMPTS

\* session_code.py line 28: while attempts < max_attempts
may_attempt(attempts) == attempts < MAX_ATTEMPTS

\* the row SessionDataAccess.create_session adds: status PENDING, the
\* other columns at their defaults
NewQuizSession(session_code) ==
  [session_code |-> session_code, status |-> PENDING,
   current_question_id |-> NULL, start_time |-> NULL, end_time |-> NULL,
   created_at |-> now]

\* an insert into a table without the unique constraint
insert_session_unconstrained(session_code) ==
  Append(quiz_sessions, NewQuizSession(session_code))

\* SessionDataAccess.create_session lines 41-48: add and commit; the
\* column session_code is unique, so the commit of a stored code raises
\* IntegrityError and stores nothing
insert_session(session_code) ==
  IF session_code \in StoredCodes THEN quiz_sessions
  ELSE Append(quiz_sessions, NewQuizSession(session_code))

\* generate_session_code lines 28-39: one round of the loop, a draw and
\* its uniqueness check. The first round is the start of the request.
\* Overlapping requests are followed for MaxCollisions taken draws each.
generate_session_code_attempt(p) ==
  /\ CanCall(p) \/ pc[p] = "generate_session_code"
  /\ may_attempt(loc[p].attempts)
  /\ \E code \in DrawnCodes :
       IF ~ session_code_exists(code)
       THEN Goto(p, "create_session", [loc[p] EXCEPT !.session_code = code])
       ELSE /\ serial \/ loc[p].attempts < MaxCollisions
            /\ LET attempts == loc[p].attempts + 1
                   l == [loc[p] EXCEPT !.attempts = attempts,
                                       !.session_code = code]
               IN IF may_attempt(attempts)
                  THEN Goto(p, "generate_session_code", l)
                  ELSE Return(p, "create", "ValueError", l)
  /\ UNCHANGED <<serial, quiz_sessions, current_question_index,
                 question_order, time_limit, is_correct, session,
                 participants, answers, now>>

\* SessionService.create_session line 50: insert the session
create_session(p) ==
  /\ pc[p] = "create_session"
  /\ quiz_sessions' = insert_session(loc[p].session_code)
  /\ IF session_code_exists(loc[p].session_code)
     THEN Return(p, "create", "IntegrityError", loc[p])
     ELSE Return(p, "create", "success", loc[p])
  /\ UNCHANGED <<serial, current_question_index, question_order,
                 time_limit, is_correct, session, participants, answers,
                 now>>

CreateStep(p) ==
  \/ generate_session_code_attempt(p)
  \/ create_session(p)

\* ------------------------------------------------ ParticipantDataAccess
SessionParticipant(student_id, joined_at) ==
  [student_id |-> student_id, joined_at |-> joined_at]

\* a membership check that never finds the row
is_participant_never(student_id) == FALSE

\* is_participant / get_participant: some row of the student exists
is_participant(student_id) ==
  \E i \in 1..Len(participants) : participants[i].student_id = student_id

\* an insert that is never committed
add_participant_uncommitted(student_id) == participants

\* add_participant: insert a row, joined_at defaults to utcnow()
add_participant(student_id) ==
  Append(participants, SessionParticipant(student_id, now))

\* --------------------------------------------- SessionService.join_session
\* lines 213-219: resolve the code, refuse a closed session
join_session_load(p) ==
  /\ CanCall(p)
  /\ \E session_code \in {SESSION_CODE, UNKNOWN_CODE}, student_id \in Students :
       IF session_code # SESSION_CODE
       THEN Return(p, "join", "Invalid session code", NoLoc)
       ELSE IF session.status = CLOSED
       THEN Return(p, "join", "This session has ended",
                   [NoLoc EXCEPT !.status = session.status,
                                 !.student = student_id])
       ELSE Goto(p, "join_check",
                 [NoLoc EXCEPT !.status = session.status,
                               !.student = student_id])
  /\ UNCHANGED <<serial, quiz_sessions, current_question_index, question_order, time_limit, is_correct, session, participants, answers, now>>

\* lines 222-223: already a participant?
join_session_check(p) ==
  /\ pc[p] = "join_check"
  /\ IF is_participant(loc[p].student)
     THEN Return(p, "join", "Already joined", loc[p])
     ELSE Goto(p, "join_add", loc[p])
  /\ UNCHANGED <<serial, quiz_sessions, current_question_index, question_order, time_limit, is_correct, session, participants, answers, now>>

\* lines 226-228: add the participant
join_session_add(p) ==
  /\ pc[p] = "join_add"
  /\ participants' = add_participant(loc[p].student)
  /\ Return(p, "join", "Joined successfully", loc[p])
  /\ UNCHANGED <<serial, quiz_sessions, current_question_index, question_order, time_limit, is_correct, session, answers, now>>

\* ---------------------------------------------------- ScoringDataAccess
StudentAnswer(student_id, question_id, option_id, submitted_at) ==
  [student_id |-> student_id, question_id |-> question_id,
   option_id |-> option_id, submitted_at |-> submitted_at]

\* the rows of a (session, student, question) key
AnswerRows(student_id, question_id) ==
  {i \in 1..Len(answers) : /\ answers[i].student_id = student_id
                           /\ answers[i].question_id = question_id}

\* get_student_answer: .first() of an unordered query, any matching row,
\* NULL when there is none
get_student_answer(student_id, question_id) ==
  IF AnswerRows(student_id, question_id) = {} THEN {NULL}
  ELSE AnswerRows(student_id, question_id)

\* an insert that is made only for the question the session points at
create_answer_of_current_question(student_id, question_id, option_id) ==
  IF session.status = ACTIVE /\ session.current_question_id = question_id
  THEN Append(answers, StudentAnswer(student_id, question_id, option_id, now))
  ELSE answers

\* create_answer: insert a row, submitted_at defaults to utcnow()
create_answer(student_id, question_id, option_id) ==
  Append(answers, StudentAnswer(student_id, question_id, option_id, now))

\* an update that refreshes the timestamp and keeps the stored option
update_answer_keeps_option(existing, loaded_option, option_id) ==
  [answers EXCEPT ![existing] = [@ EXCEPT !.submitted_at = now]]

\* submit_answer lines 79-82: the existing row with the new option and a
\* fresh timestamp; the commit writes the option only when it differs
\* from the loaded one
update_answer(existing, loaded_option, option_id) ==
  [answers EXCEPT ![existing] =
     [@ EXCEPT !.option_id = IF option_id # loaded_option THEN option_id ELSE @,
               !.submitted_at = now]]

\* the (student, question) keys that hold an answer row or are about to
\* get one from a request that is inserting
AnsweredKeys ==
  {<<answers[i].student_id, answers[i].question_id>> : i \in 1..Len(answers)}
  \cup {<<loc[q].student, loc[q].question>> :
          q \in {r \in Procs : pc[r] = "submit_insert"}}

\* ------------------------------------------ ScoringDataAccess.submit_answer
\* line 75: look the existing answer up
submit_answer_load(p) ==
  /\ CanCall(p)
  /\ \E student_id \in Students, question_id \in QuestionIds,
        option_id \in Options :
       \E existing \in get_student_answer(student_id, question_id) :
         IF existing # NULL
         THEN Goto(p, "submit_update",
                   [NoLoc EXCEPT !.student = student_id,
                                 !.question = question_id,
                                 !.option = option_id,
                                 !.existing = existing,
                                 !.loaded_option = answers[existing].option_id])
         ELSE /\ Cardinality(AnsweredKeys \cup {<<student_id, question_id>>})
                   <= MaxKeys
              /\ Goto(p, "submit_insert",
                      [NoLoc EXCEPT !.student = student_id,
                                    !.question = question_id,
                                    !.option = option_id])
  /\ UNCHANGED <<serial, quiz_sessions, current_question_index, question_order, time_limit, is_correct, session, participants, answers, now>>

\* lines 77-83: overwrite option and timestamp of the existing row
submit_answer_update(p) ==
  /\ pc[p] = "submit_update"
  /\ answers' = update_answer(loc[p].existing, loc[p].loaded_option,
                              loc[p].option)
  /\ Return(p, "submit", "updated", loc[p])
  /\ UNCHANGED <<serial, quiz_sessions, current_question_index, question_order, time_limit, is_correct, session, participants, now>>

\* lines 84-86: create_answer
submit_answer_insert(p) ==
  /\ pc[p] = "submit_insert"
  /\ answers' = create_answer(loc[p].student, loc[p].question, loc[p].option)
  /\ Return(p, "submit", "created", loc[p])
  /\ UNCHANGED <<serial, quiz_sessions, current_question_index, question_order, time_limit, is_correct, session, participants, now>>

\* ------------------------------------------------ QuizParticipationView
\* result['success'] of _submit_answer line 391: result is what
\* ScoringService.submit_answer returned, the StudentAnswer row, which
\* has no item 'success': the subscript raises TypeError
result_success(result) ==
  IF "success" \in DOMAIN result THEN result.success ELSE "TypeError"

\* lines 354 and 368, 387-389 and submit_answer line 75: the student
\* clicks an option of the question the view shows, the one at
\* current_question_index; the existing answer is looked up
view_submit_answer_load(p) ==
  /\ CanCall(p)
  /\ \E student_id \in Students, option_id \in Options :
       /\ current_question_index[student_id] < Len(get_questions_by_quiz)
       /\ LET question_id ==
                get_questions_by_quiz[current_question_index[student_id] + 1]
          IN \E existing \in get_student_answer(student_id, question_id) :
               Goto(p, "view_submit",
                    [NoLoc EXCEPT
                       !.student = student_id,
                       !.question = question_id,
                       !.option = option_id,
                       !.existing = existing,
                       !.loaded_option =
                          IF existing = NULL THEN NULL
                          ELSE answers[existing].option_id])
  /\ UNCHANGED <<serial, quiz_sessions, current_question_index,
                 question_order, time_limit, is_correct, session,
                 participants, answers, now>>

\* submit_answer lines 77-86 and _submit_answer lines 391-399: the answer
\* is updated or created, then the view looks at result['success']
view_submit_answer_store(p) ==
  /\ pc[p] = "view_submit"
  /\ answers' = IF loc[p].existing # NULL
                THEN update_answer(loc[p].existing, loc[p].loaded_option,
                                   loc[p].option)
                ELSE create_answer(loc[p].student, loc[p].question,
                                   loc[p].option)
  /\ LET result == IF loc[p].existing # NULL
                   THEN answers'[loc[p].existing]
                   ELSE answers'[Len(answers')]
         success == result_success(result)
         current_index == current_question_index[loc[p].student]
         all_questions == get_questions_by_quiz
     IN IF success = "TypeError"
        THEN /\ Return(p, "view_submit", "TypeError", loc[p])
             /\ UNCHANGED current_question_index
        ELSE IF success = TRUE
        THEN /\ Return(p, "view_submit", "success", loc[p])
             /\ current_question_index' =
                  [current_question_index EXCEPT ![loc[p].student] =
                     IF current_index < Len(all_questions) - 1
                     THEN current_index + 1
                     ELSE Len(all_questions)]
        ELSE /\ Return(p, "view_submit", "error", loc[p])
             /\ UNCHANGED current_question_index
  /\ UNCHANGED <<serial, quiz_sessions, question_order, time_limit,
                 is_correct, session, participants, now>>

\* _render_navigation lines 375-379: the Previous button
view_previous(student_id) ==
  /\ \A p \in Procs : Idle(p)
  /\ current_question_index[student_id] > 0
  /\ current_question_index[student_id] < Len(get_questions_by_quiz)
  /\ current_question_index' =
       [current_question_index EXCEPT ![student_id] = @ - 1]
  /\ returned' = NoResult
  /\ UNCHANGED <<serial, quiz_sessions, question_order, time_limit,
                 is_correct, session, participants, answers, now, pc, loc>>

\* _render_navigation lines 381-385: the Next button
view_next(student_id) ==
  /\ \A p \in Procs : Idle(p)
  /\ current_question_index[student_id] < Len(get_questions_by_quiz) - 1
  /\ current_question_index' =
       [current_question_index EXCEPT ![student_id] = @ + 1]
  /\ returned' = NoResult
  /\ UNCHANGED <<serial, quiz_sessions, question_order, time_limit,
                 is_correct, session, participants, answers, now, pc, loc>>

\* ------------------------------------------------- binary64 arithmetic
\* Python floats are IEEE 754 binary64.  A non-negative float is held as
\* [m, e] with value m * 2^e, m a natural number of at most MANTISSA_BITS
\* bits written in limbs of LIMB_BITS bits, least significant first.
LIMB_BITS == 15
LIMB == 32768
MANTISSA_BITS == 53

RECURSIVE Pow2(_)
Pow2(n) == IF n = 0 THEN 1 ELSE 2 * Pow2(n - 1)

RECURSIVE BitsOf(_)
BitsOf(n) == IF n = 0 THEN 0 ELSE 1 + BitsOf(n \div 2)

RECURSIVE BigBits(_)
BigBits(a) ==
  IF a = <<>> THEN 0
  ELSE LET high == BigBits(Tail(a))
       IN IF high > 0 THEN high + LIMB_BITS ELSE BitsOf(a[1])

RECURSIVE BigAdd(_, _, _)
BigAdd(a, b, carry) ==
  IF a = <<>> /\ b = <<>> THEN (IF carry = 0 THEN <<>> ELSE <<carry>>)
  ELSE LET x == IF a = <<>> THEN 0 ELSE a[1]
           y == IF b = <<>> THEN 0 ELSE b[1]
           v == x + y + carry
       IN <<v % LIMB>> \o BigAdd(IF a = <<>> THEN a ELSE Tail(a),
                                  IF b = <<>> THEN b ELSE Tail(b),
                                  v \div LIMB)

RECURSIVE BigMulLimb(_, _, _)
BigMulLimb(a, m, carry) ==
  IF a = <<>> THEN (IF carry = 0 THEN <<>> ELSE <<carry>>)
  ELSE LET v == a[1] * m + carry
       IN <<v % LIMB>> \o BigMulLimb(Tail(a), m, v \div LIMB)

RECURSIVE BigMul(_, _)
BigMul(a, b) ==
  IF b = <<>> THEN <<>>
  ELSE BigAdd(BigMulLimb(a, b[1], 0), <<0>> \o BigMul(a, Tail(b)), 0)

\* quotient and remainder of a by a divisor below LIMB
RECURSIVE BigDivLimb(_, _)
BigDivLimb(a, d) ==
  IF a = <<>> THEN [q |-> <<>>, r |-> 0]
  ELSE LET high == BigDivLimb(Tail(a), d)
           v == high.r * LIMB + a[1]
       IN [q |-> <<v \div d>> \o high.q, r |-> v % d]

\* floor(a / 2^n)
BigShiftRight(a, n) ==
  LET limbs == n \div LIMB_BITS
  IN IF limbs >= Len(a) THEN <<>>
     ELSE BigDivLimb(SubSeq(a, limbs + 1, Len(a)), Pow2(n % LIMB_BITS)).q

\* a mod 2^n = 0
BigLowBitsZero(a, n) ==
  LET limbs == n \div LIMB_BITS
  IN /\ \A i \in 1..limbs : i <= Len(a) => a[i] = 0
     /\ limbs < Len(a) => a[limbs + 1] % Pow2(n % LIMB_BITS) = 0

BigOdd(a) == a # <<>> /\ a[1] % 2 = 1

\* a natural number below LIMB * LIMB as an integer
BigToInt(a) ==
  (IF Len(a) >= 1 THEN a[1] ELSE 0) + (IF Len(a) >= 2 THEN a[2] * LIMB ELSE 0)

\* a / 2^n rounded to the nearest integer, ties to even
BigRoundShift(a, n) ==
  IF n <= 0 THEN a
  ELSE LET kept  == BigShiftRight(a, n)
           half  == BigOdd(BigShiftRight(a, n - 1))
           below == ~ BigLowBitsZero(a, n - 1)
       IN IF half /\ (below \/ BigOdd(kept))
          THEN BigAdd(kept, <<1>>, 0) ELSE kept

\* m * 2^e rounded to the nearest float, ties to even
RoundToFloat(m, e) ==
  LET drop == BigBits(m) - MANTISSA_BITS
  IN IF drop <= 0 THEN [m |-> m, e |-> e]
     ELSE [m |-> BigRoundShift(m, drop), e |-> e + drop]

\* float(n) for 0 <= n < LIMB
FloatOfInt(n) == [m |-> IF n = 0 THEN <<>> ELSE <<n>>, e |-> 0]

\* x * y
FloatMul(x, y) == RoundToFloat(BigMul(x.m, y.m), x.e + y.e)

\* n / d for integers 0 <= n < LIMB, 0 < d < LIMB: the quotient of
\* n * 2^(5 * LIMB_BITS) by d, with one more bit that is set when the
\* division leaves a remainder, rounded
FloatDiv(n, d) ==
  LET division == BigDivLimb(<<0, 0, 0, 0, 0, n>>, d)
      sticky   == IF division.r = 0 THEN <<>> ELSE <<1>>
  IN RoundToFloat(BigAdd(BigMulLimb(division.q, 2, 0), sticky, 0),
                  0 - (5 * LIMB_BITS + 1))

\* int(x) for 0 <= x < LIMB * LIMB
FloatToInt(x) ==
  IF x.e >= 0 THEN BigToInt(x.m) * Pow2(x.e)
  ELSE BigToInt(BigShiftRight(x.m, 0 - x.e))


\* round(x, 1) in tenths, for 0 <= x and x.e <= 0: the decimal nearest to
\* the exact value of the float, ties to even
FloatRoundTenths(x) ==
  BigToInt(BigRoundShift(BigMulLimb(x.m, 10, 0), 0 - x.e))

\* config.py: SPEED_PENALTY_MULTIPLIER = 0.3, the float
\* 5404319552844595 * 2^-54
SPEED_PENALTY_MULTIPLIER == [m |-> <<13107, 26214, 19660, 153>>, e |-> 0 - 54]

\* ------------------------------------------------------- ScoringService
Max(a, b) == IF a >= b THEN a ELSE b
Min(a, b) == IF a <= b THEN a ELSE b

\* answer.selected_option and answer.selected_option.is_correct
selected_correct(answer) ==
  answer.option_id # NULL /\ is_correct[answer.option_id]

\* line 111: int((time_taken / time_limit) * BASE_POINTS
\*               * SPEED_PENALTY_MULTIPLIER)
speed_penalty(time_taken, limit) ==
  FloatToInt(FloatMul(FloatMul(FloatDiv(time_taken, limit),
                               FloatOfInt(BASE_POINTS)),
                      SPEED_PENALTY_MULTIPLIER))

\* a score that does not look at the correctness of the selected option
calculate_answer_score_any_option(answer, question_start_time, limit) ==
  IF answer.option_id = NULL THEN 0
  ELSE LET time_taken ==
             Max(0, Min(answer.submitted_at - question_start_time, limit))
       IN Max(0, BASE_POINTS - speed_penalty(time_taken, limit))

\* calculate_answer_score (lines 85-115)
calculate_answer_score(answer, question_start_time, limit) ==
  IF ~ selected_correct(answer) THEN 0
  ELSE LET time_taken ==
             Max(0, Min(answer.submitted_at - question_start_time, limit))
       IN Max(0, BASE_POINTS - speed_penalty(time_taken, limit))

\* a clock per question: the start of a second question that follows the
\* session's start after the default time of the first
question_start_time_second_question(start_time) ==
  (IF start_time # NULL THEN start_time ELSE session.created_at)
  + DEFAULT_QUESTION_TIME

\* line 161: session.start_time or session.created_at
question_start_time(start_time) ==
  IF start_time # NULL THEN start_time ELSE session.created_at

\* lines 159-167: the score of a stored answer, as calculate_leaderboard
\* asks for it
calculate_answer_score_call(p) ==
  /\ CanCall(p)
  /\ \E i \in 1..Len(answers) :
       ReturnValue(p, "score", [NoLoc EXCEPT !.existing = i],
                   calculate_answer_score(answers[i],
                                          question_start_time(session.start_time),
                                          time_limit[answers[i].question_id]))
  /\ UNCHANGED <<serial, quiz_sessions, current_question_index, question_order, time_limit, is_correct, session,
                 participants, answers, now>>

\* ------------------------------------ ScoringService.calculate_leaderboard
\* get_participants_by_session: a query without ORDER BY, whose rows come
\* in an order the database does not fix: any order of the rows
get_participants_by_session ==
  {[i \in 1..Len(participants) |-> participants[order[i]]] :
     order \in Permutations(Len(participants))}

\* get_answers_by_session: the rows of a query without ORDER BY; they are
\* summed and counted, so their order does not enter any result and they
\* are taken in table order
get_answers_by_session == answers

\* line 154: [a for a in all_answers if a.student_id == student_id]
student_answers(all_answers, student_id) ==
  SelectSeq(all_answers, LAMBDA a : a.student_id = student_id)

\* lines 156-168: total_points, the sum of the scores of the answers
RECURSIVE total_points(_, _)
total_points(of_student, start_time) ==
  IF of_student = <<>> THEN 0
  ELSE calculate_answer_score(Head(of_student),
                              question_start_time(start_time),
                              time_limit[Head(of_student).question_id])
       + total_points(Tail(of_student), start_time)

\* lines 170-171: correct_count
correct_count(of_student) == Len(SelectSeq(of_student, selected_correct))

\* a percentage that is cut to a whole number
percent_correct_whole(correct, answered) ==
  IF answered > 0 THEN ((correct * 100) \div answered) * 10 ELSE 0

\* lines 174 and 183: round(correct_count / answered_count * 100, 1), or 0
\* without answers; in tenths of a percent
percent_correct(correct, answered) ==
  IF answered > 0
  THEN FloatRoundTenths(FloatMul(FloatDiv(correct, answered), FloatOfInt(100)))
  ELSE 0

\* lines 176-185: the entry of a student (without the student's name)
LeaderboardEntry(student_id, all_answers, start_time, total_questions) ==
  LET of_student == student_answers(all_answers, student_id)
  IN [student_id      |-> student_id,
      total_points    |-> total_points(of_student, start_time),
      correct_count   |-> correct_count(of_student),
      total_questions |-> total_questions,
      answered_count  |-> Len(of_student),
      percent_correct |-> percent_correct(correct_count(of_student),
                                          Len(of_student)),
      participation   |-> <<Len(of_student), total_questions>>,
      rank            |-> NULL]

\* lines 148-150 and 176: student_scores is a dict keyed by student_id, so
\* its values are in the order in which the student ids first came up
RECURSIVE student_ids(_)
student_ids(rows) ==
  IF rows = <<>> THEN <<>>
  ELSE LET before == student_ids(SubSeq(rows, 1, Len(rows) - 1))
           student_id == rows[Len(rows)].student_id
       IN IF \E i \in 1..Len(before) : before[i] = student_id
          THEN before ELSE Append(before, student_id)

\* the sort key of line 190 compared: a's key is at least b's
KeyAtLeast(a, b) ==
  \/ a.total_points > b.total_points
  \/ /\ a.total_points = b.total_points
     /\ a.percent_correct >= b.percent_correct

\* a sort by total points alone
sorted_by_points(entries) ==
  LET Before(i, j) ==
        \/ entries[i].total_points > entries[j].total_points
        \/ entries[i].total_points = entries[j].total_points /\ i < j
      Place(i) == 1 + Cardinality({j \in 1..Len(entries) : Before(j, i)})
  IN [k \in 1..Len(entries) |->
        entries[CHOOSE i \in 1..Len(entries) : Place(i) = k]]

\* lines 188-192: sorted(..., reverse=True), a stable sort: entries with
\* equal keys stay in their order
RECURSIVE sorted_reverse(_)
sorted_reverse(entries) ==
  IF entries = <<>> THEN <<>>
  ELSE LET before == sorted_reverse(SubSeq(entries, 1, Len(entries) - 1))
           entry  == entries[Len(entries)]
           ahead  == Cardinality({i \in 1..Len(before) :
                                    KeyAtLeast(before[i], entry)})
       IN SubSeq(before, 1, ahead) \o <<entry>>
          \o SubSeq(before, ahead + 1, Len(before))

\* lines 147-198: the leaderboard of the loaded participants and answers
leaderboard_of(loaded_participants, all_answers, start_time, total_questions) ==
  LET ids == student_ids(loaded_participants)
      entries == [i \in 1..Len(ids) |->
                    LeaderboardEntry(ids[i], all_answers, start_time,
                                     total_questions)]
      ranked == sorted_reverse(entries)
  IN [i \in 1..Len(ranked) |-> [ranked[i] EXCEPT !.rank = i]]

\* lines 135-142: load the participants and the questions; no questions,
\* no leaderboard
calculate_leaderboard_load(p) ==
  /\ CanCall(p)
  /\ IF Len(get_questions_by_quiz) = 0
     THEN ReturnValue(p, "leaderboard", NoLoc, <<>>)
     ELSE \E rows \in get_participants_by_session :
            Goto(p, "leaderboard_answers",
                 [NoLoc EXCEPT !.start_time = session.start_time,
                               !.rows = rows])
  /\ UNCHANGED <<serial, quiz_sessions, current_question_index, question_order, time_limit, is_correct, session,
                 participants, answers, now>>

\* lines 145-198: load the answers, score, sort and rank
calculate_leaderboard_answers(p) ==
  /\ pc[p] = "leaderboard_answers"
  /\ ReturnValue(p, "leaderboard", loc[p],
                 leaderboard_of(loc[p].rows, get_answers_by_session,
                                loc[p].start_time, Len(get_questions_by_quiz)))
  /\ UNCHANGED <<serial, quiz_sessions, current_question_index, question_order, time_limit, is_correct, session,
                 participants, answers, now>>

\* ------------------------------------ ScoringService.get_detailed_results
\* QuestionOption.option_order: the options of the model are numbered by
\* their order
option_order(option_id) == option_id

ASCII_UPPERCASE ==
  <<"A", "B", "C", "D", "E", "F", "G", "H", "I", "J", "K", "L", "M",
    "N", "O", "P", "Q", "R", "S", "T", "U", "V", "W", "X", "Y", "Z">>

\* chr, for the codes of the capital letters
chr(code) == ASCII_UPPERCASE[code - 64]

\* lines 227-234 and 246-248: answer_map.get(question.id, '-'); the map
\* is filled row by row, so a later row of a question replaces an earlier
\* one, and a row without an option fills nothing
RECURSIVE answer_map_get(_, _)
answer_map_get(of_student, question_id) ==
  IF of_student = <<>> THEN "-"
  ELSE LET answer == of_student[Len(of_student)]
       IN IF answer.question_id = question_id /\ answer.option_id # NULL
          THEN chr(64 + option_order(answer.option_id))
          ELSE answer_map_get(SubSeq(of_student, 1, Len(of_student) - 1),
                              question_id)

\* lines 221-250: the result row of a leaderboard entry; q holds the
\* columns q1, q2, ... (student_name is left out, users are not modelled)
detailed_result(entry, questions, all_answers) ==
  [rank            |-> entry.rank,
   total_points    |-> entry.total_points,
   percent_correct |-> entry.percent_correct,
   participation   |-> entry.participation,
   q |-> [i \in 1..Len(questions) |->
            answer_map_get(student_answers(all_answers, entry.student_id),
                           questions[i])]]

detailed_results_of(leaderboard, questions, all_answers) ==
  [i \in 1..Len(leaderboard) |->
     detailed_result(leaderboard[i], questions, all_answers)]

\* line 215: the answers are queried a second time in the same DB session.
\* Under READ COMMITTED the query sees the rows committed since the first
\* one; a row that the DB session already holds keeps the attributes it
\* was loaded with (identity map)
get_answers_by_session_again(loaded) ==
  [i \in 1..Len(answers) |->
     IF i <= Len(loaded) THEN loaded[i] ELSE answers[i]]

\* line 213, calculate_leaderboard lines 135-142: participants and
\* questions
get_detailed_results_load(p) ==
  /\ CanCall(p)
  /\ IF Len(get_questions_by_quiz) = 0
     THEN Goto(p, "detailed_answers", NoLoc)
     ELSE \E rows \in get_participants_by_session :
            Goto(p, "detailed_leaderboard",
                 [NoLoc EXCEPT !.start_time = session.start_time,
                               !.rows = rows])
  /\ UNCHANGED <<serial, quiz_sessions, current_question_index,
                 question_order, time_limit, is_correct, session,
                 participants, answers, now>>

\* line 213, calculate_leaderboard lines 145-198: the answers and the
\* leaderboard made of them
get_detailed_results_leaderboard(p) ==
  /\ pc[p] = "detailed_leaderboard"
  /\ Goto(p, "detailed_answers",
          [loc[p] EXCEPT
             !.all_answers = get_answers_by_session,
             !.leaderboard =
                leaderboard_of(loc[p].rows, get_answers_by_session,
                               loc[p].start_time,
                               Len(get_questions_by_quiz))])
  /\ UNCHANGED <<serial, quiz_sessions, current_question_index,
                 question_order, time_limit, is_correct, session,
                 participants, answers, now>>

\* lines 214-252: the answers again, and the rows
get_detailed_results_answers(p) ==
  /\ pc[p] = "detailed_answers"
  /\ ReturnValue(p, "detailed_results", loc[p],
                 detailed_results_of(
                   loc[p].leaderboard, get_questions_by_quiz,
                   get_answers_by_session_again(loc[p].all_answers)))
  /\ UNCHANGED <<serial, quiz_sessions, current_question_index,
                 question_order, time_limit, is_correct, session,
                 participants, answers, now>>

\* ------------------------------------------------------------------- Next
\* the instructor's requests on the session
LifecycleStep(p) ==
  \/ start_session_load(p)
  \/ start_session_status(p)
  \/ start_session_question(p)
  \/ end_session_load(p)
  \/ end_session_status(p)
  \/ next_question_load(p)
  \/ next_question_update(p)

JoinStep(p) ==
  \/ join_session_load(p)
  \/ join_session_check(p)
  \/ join_session_add(p)

SubmitStep(p) ==
  \/ submit_answer_load(p)
  \/ submit_answer_update(p)
  \/ submit_answer_insert(p)

\* the read-only requests
ScoringStep(p) ==
  \/ calculate_answer_score_call(p)
  \/ calculate_leaderboard_load(p)
  \/ calculate_leaderboard_answers(p)

Step(p) ==
  \/ LifecycleStep(p)
  \/ JoinStep(p)
  \/ SubmitStep(p)
  \/ ScoringStep(p)
  \/ get_detailed_results_load(p)
  \/ get_detailed_results_leaderboard(p)
  \/ get_detailed_results_answers(p)
  \/ CreateStep(p)
  \/ view_submit_answer_load(p)
  \/ view_submit_answer_store(p)

Next ==
  \/ Tick
  \/ \E p \in Procs : Step(p)
  \/ \E student_id \in Students : \/ view_previous(student_id)
                                   \/ view_next(student_id)

Spec == Init /\ [][Next]_vars


\* start, advance, end and join (submit reads and writes neither the
\* session row nor the participants)
SessionNext ==
  \/ Tick
  \/ \E p \in Procs : LifecycleStep(p) \/ JoinStep(p)

\* submit (reads and writes the answer rows only)
AnswerNext ==
  \/ Tick
  \/ \E p \in Procs : SubmitStep(p)

\* overlapping requests
SessionSpec == ConcurrentInit /\ [][SessionNext]_vars
AnswerSpec  == ConcurrentInit /\ [][AnswerNext]_vars

\* one request at a time
SeqSessionSpec == SerialInit /\ [][SessionNext]_vars
SeqAnswerSpec  == SerialInit /\ [][AnswerNext]_vars

\* ------------------------------------------------ scoring of one answer
\* the time limits of the scored question
TimeLimits == (MIN_TIME_LIMIT..MaxTimeLimit) \cup {MAX_TIME_LIMIT}

\* a store with one question and one answer to it: any time limit, a
\* session not yet started or started at second 2, an answer with any
\* option or with none (its option was deleted), submitted from one
\* second before the start to one second past the time limit
ScoreInit ==
  /\ serial = TRUE
  /\ quiz_sessions = <<>>
  /\ current_question_index = [s \in Students |-> 0]
  /\ question_order = <<1>>
  /\ time_limit \in [QuestionIds -> TimeLimits]
  /\ is_correct = [o \in Options |-> o = 1]
  /\ \E start_time \in {NULL, 2} :
       session = QuizSession(IF start_time = NULL THEN PENDING ELSE ACTIVE,
                             NULL, start_time, NULL)
  /\ participants = <<SessionParticipant(1, CREATED_AT)>>
  /\ \E option_id \in Options \cup {NULL}, submitted_at \in 1..(time_limit[1] + 3) :
       /\ answers = <<StudentAnswer(1, 1, option_id, submitted_at)>>
       /\ now = Max(2, submitted_at)
  /\ pc = [p \in Procs |-> "idle"]
  /\ loc = [p \in Procs |-> NoLoc]
  /\ returned = NoResult

ScoreNext == \E p \in Procs : calculate_answer_score_call(p)

ScoreSpec == ScoreInit /\ [][ScoreNext]_vars

\* ------------------------------------------------- ranking of a session
\* the students of a ranked session
Entrants == 1..2

\* what a student did with a question: nothing, or an answer with an
\* option (1 is the correct one) so many seconds after the start
Unanswered == <<>>
AnswerKinds == {<<1, 0>>, <<1, 3>>, <<2, 0>>}

\* the (student, question) keys of a ranked session, student by student
RankedKeys ==
  LET n == Cardinality(QuestionIds)
  IN [i \in 1..(Cardinality(Entrants) * n) |->
        <<((i - 1) \div n) + 1, ((i - 1) % n) + 1>>]

\* the answer rows of the keys that were answered, in key order
RECURSIVE RowsOfKinds(_, _)
RowsOfKinds(kinds, n) ==
  IF n = 0 THEN <<>>
  ELSE IF kinds[n] = Unanswered THEN RowsOfKinds(kinds, n - 1)
  ELSE Append(RowsOfKinds(kinds, n - 1),
              StudentAnswer(RankedKeys[n][1], RankedKeys[n][2],
                            kinds[n][1], CREATED_AT + kinds[n][2]))

\* n of the students in any order
Orders(n) ==
  {f \in [1..n -> Entrants] : \A i, j \in 1..n : f[i] = f[j] => i = j}

\* the store after a quiz run, each request having returned: a quiz
\* without questions, with two or with three, a session started when it
\* was created,
\* some of the students joined in some order, at most one answer per
\* (student, question) and at most MaxRows answers
LeaderboardInit ==
  /\ serial = TRUE
  /\ quiz_sessions = <<>>
  /\ current_question_index = [s \in Students |-> 0]
  /\ question_order \in {<<>>, <<1, 2>>, <<1, 2, 3>>}
  /\ time_limit = [q \in QuestionIds |-> DEFAULT_QUESTION_TIME]
  /\ is_correct = [o \in Options |-> o = 1]
  /\ session = QuizSession(ACTIVE, NULL, CREATED_AT, NULL)
  /\ \E n \in 0..Cardinality(Entrants) :
       \E order \in Orders(n) :
         participants = [i \in 1..n |-> SessionParticipant(order[i], CREATED_AT)]
  /\ \E kinds \in [1..Len(RankedKeys) -> AnswerKinds \cup {Unanswered}] :
       /\ Cardinality({i \in 1..Len(RankedKeys) : kinds[i] # Unanswered})
            <= MaxRows
       /\ answers = RowsOfKinds(kinds, Len(RankedKeys))
  /\ now = CREATED_AT + 3
  /\ pc = [p \in Procs |-> "idle"]
  /\ loc = [p \in Procs |-> NoLoc]
  /\ returned = NoResult

LeaderboardNext ==
  \E p \in Procs : \/ calculate_leaderboard_load(p)
                    \/ calculate_leaderboard_answers(p)

LeaderboardSpec == LeaderboardInit /\ [][LeaderboardNext]_vars

\* ------------------------------------- results export during submissions
\* a started session that every student has joined
ResultsInit ==
  /\ serial = FALSE
  /\ quiz_sessions = <<>>
  /\ current_question_index = [s \in Students |-> 0]
  /\ \E n \in 0..MaxQuestions : question_order \in Permutations(n)
  /\ time_limit = [q \in QuestionIds |-> DEFAULT_QUESTION_TIME]
  /\ is_correct = [o \in Options |-> o = 1]
  /\ session = QuizSession(ACTIVE, NULL, CREATED_AT, NULL)
  /\ participants = [s \in Students |-> SessionParticipant(s, CREATED_AT)]
  /\ answers = <<>>
  /\ now = CREATED_AT
  /\ pc = [p \in Procs |-> "idle"]
  /\ loc = [p \in Procs |-> NoLoc]
  /\ returned = NoResult

ResultsStep(p) ==
  \/ get_detailed_results_load(p)
  \/ get_detailed_results_leaderboard(p)
  \/ get_detailed_results_answers(p)

ResultsNext == \E p \in Procs : SubmitStep(p) \/ ResultsStep(p)

ResultsSpec == ResultsInit /\ [][ResultsNext]_vars

\* ---------------------------------- submissions while the session moves
\* a session started on its first question, nobody has answered yet
FrameInit ==
  /\ serial = FALSE
  /\ quiz_sessions = <<>>
  /\ current_question_index = [s \in Students |-> 0]
  /\ \E n \in 1..MaxQuestions : question_order \in Permutations(n)
  /\ time_limit = [q \in QuestionIds |-> DEFAULT_QUESTION_TIME]
  /\ is_correct = [o \in Options |-> o = 1]
  /\ session = QuizSession(ACTIVE, get_questions_by_quiz[1], CREATED_AT, NULL)
  /\ participants = [s \in Students |-> SessionParticipant(s, CREATED_AT)]
  /\ answers = <<>>
  /\ now = CREATED_AT
  /\ pc = [p \in Procs |-> "idle"]
  /\ loc = [p \in Procs |-> NoLoc]
  /\ returned = NoResult

AdvanceOrEndStep(p) ==
  \/ next_question_load(p)
  \/ next_question_update(p)
  \/ end_session_load(p)
  \/ end_session_status(p)

\* a request of the instructor overlaps a request of a student
INSTRUCTOR == 1
STUDENT == 2

FrameNext ==
  \/ AdvanceOrEndStep(INSTRUCTOR)
  \/ SubmitStep(STUDENT)

FrameSpec == FrameInit /\ [][FrameNext]_vars

\* ------------------------------------------------- creation of sessions
CreateNext == \E p \in Procs : CreateStep(p)

\* one create_session at a time
SeqCreateSpec == SerialInit /\ [][CreateNext]_vars

\* overlapping create_session calls
CreateSpec == ConcurrentInit /\ [][CreateNext]_vars

\* ------------------------------------------- the student's quiz screen
\* a session just started on its first question that every student has
\* joined, the views at the first question; one request at a time
StartedInit ==
  /\ serial = TRUE
  /\ quiz_sessions = <<>>
  /\ current_question_index = [s \in Students |-> 0]
  /\ \E n \in 1..MaxQuestions : question_order \in Permutations(n)
  /\ time_limit = [q \in QuestionIds |-> DEFAULT_QUESTION_TIME]
  /\ is_correct = [o \in Options |-> o = 1]
  /\ session = QuizSession(ACTIVE, get_questions_by_quiz[1], CREATED_AT, NULL)
  /\ participants = [s \in Students |-> SessionParticipant(s, CREATED_AT)]
  /\ answers = <<>>
  /\ now = CREATED_AT
  /\ pc = [p \in Procs |-> "idle"]
  /\ loc = [p \in Procs |-> NoLoc]
  /\ returned = NoResult

ViewNext ==
  \/ Tick
  \/ \E p \in Procs : \/ view_submit_answer_load(p)
                      \/ view_submit_answer_store(p)
  \/ \E student_id \in Students : \/ view_previous(student_id)
                                   \/ view_next(student_id)

ViewSpec == StartedInit /\ [][ViewNext]_vars

\* ------------------------------------------ standings while students play
\* joins, submits and leaderboard computations, overlapping
StandingsNext ==
  \E p \in Procs : \/ JoinStep(p)
                    \/ SubmitStep(p)
                    \/ calculate_leaderboard_load(p)
                    \/ calculate_leaderboard_answers(p)

StandingsSpec == ConcurrentInit /\ [][StandingsNext]_vars

\* ------------------------------------------- advancing a started session
\* a session just started on the first question of a quiz of up to
\* MaxLength questions
AdvanceInit ==
  /\ serial = TRUE
  /\ quiz_sessions = <<>>
  /\ current_question_index = [s \in Students |-> 0]
  /\ \E n \in 1..MaxLength : question_order \in Permutations(n)
  /\ time_limit = [q \in QuestionIds |-> DEFAULT_QUESTION_TIME]
  /\ is_correct = [o \in Options |-> o = 1]
  /\ session = QuizSession(ACTIVE, get_questions_by_quiz[1], CREATED_AT, NULL)
  /\ participants = <<>>
  /\ answers = <<>>
  /\ now = CREATED_AT
  /\ pc = [p \in Procs |-> "idle"]
  /\ loc = [p \in Procs |-> NoLoc]
  /\ returned = NoResult

AdvanceNext ==
  \/ Tick
  \/ \E p \in Procs : \/ next_question_load(p)
                      \/ next_question_update(p)

AdvanceSpec == AdvanceInit /\ [][AdvanceNext]_vars

\* ================================================================ claims
\* rows of a (session, student, question) key in an answer table
RowsOfKey(rows, student_id, question_id) ==
  {i \in 1..Len(rows) : /\ rows[i].student_id = student_id
                        /\ rows[i].question_id = question_id}

\* rows of a (session, student) pair in a participant table
RowsOfStudent(rows, student_id) ==
  {i \in 1..Len(rows) : rows[i].student_id = student_id}

\* position of the current-question pointer in the quiz's question order,
\* 0 while there is no current question
Position(question_id) ==
  IF question_id = NULL THEN 0 ELSE question_order[question_id]

\* C1: under any interleaving of concurrent submit calls the store never
\* holds more than one StudentAnswer row for a (session, student, question)
\* key, and after a submit commits, the row of its key carries the option
\* and the timestamp of that write.
C1_OneRowPerKeyLastWriteWins ==
  [][ /\ \A s \in Students, q \in QuestionIds :
           Cardinality(RowsOfKey(answers', s, q)) <= 1
      /\ returned'.op = "submit" =>
           \A i \in RowsOfKey(answers', returned'.call.student,
                              returned'.call.question) :
             /\ answers'[i].option_id = returned'.call.option
             /\ answers'[i].submitted_at = now ]_vars

\* C2: the session status never moves backward: the only status changes
\* are PENDING->ACTIVE, ACTIVE->CLOSED and PENDING->CLOSED, so a CLOSED
\* session stays CLOSED.
C2_StatusNeverMovesBackward ==
  [][ session'.status # session.status =>
        <<session.status, session'.status>> \in
          {<<PENDING, ACTIVE>>, <<ACTIVE, CLOSED>>, <<PENDING, CLOSED>>} ]_vars

\* C3: the position of the current-question pointer in the quiz's question
\* order never decreases over start, advance and end.
C3_PointerNeverMovesBack ==
  [][ Position(session'.current_question_id)
        >= Position(session.current_question_id) ]_vars

\* C4: when a submit returns for a key that already holds an answer with a
\* different option (the first of two calls in sequence), exactly one row
\* exists for the key afterwards, with the option of the second call and
\* the timestamp of the second call.
C4_ResubmitOverwrites ==
  [][ LET s == returned'.call.student
          q == returned'.call.question
      IN (/\ returned'.op = "submit"
          /\ \E i \in RowsOfKey(answers, s, q) :
               answers[i].option_id # returned'.call.option)
         => /\ Cardinality(RowsOfKey(answers', s, q)) = 1
            /\ \A i \in RowsOfKey(answers', s, q) :
                 /\ answers'[i].option_id = returned'.call.option
                 /\ answers'[i].submitted_at = now ]_vars

\* a second submit has overwritten a different option
C4_Witness ==
  /\ returned.op = "submit"
  /\ returned.outcome = "updated"
  /\ returned.call.loaded_option # returned.call.option
  /\ \E i \in 1..Len(answers) :
       /\ RowsOfKey(answers, returned.call.student, returned.call.question) = {i}
       /\ answers[i].option_id = returned.call.option
       /\ answers[i].submitted_at = now

\* C5: start called on a session that is already ACTIVE or CLOSED fails and
\* leaves status, start_time, end_time and current_question unchanged.
C5_StartRequiresPending ==
  [][ \A p \in Procs :
        /\ (pc[p] \in {"start_status", "start_question"}
            /\ loc[p].status \in {ACTIVE, CLOSED})
           => session' = session
        /\ (returned'.op = "start"
            /\ returned'.call.status \in {ACTIVE, CLOSED})
           => returned'.outcome # "success" ]_vars

\* C6: advance called on a PENDING or CLOSED session fails with an
\* invalid-transition outcome and does not change the current-question
\* pointer.
C6_AdvanceRequiresActive ==
  [][ \A p \in Procs :
        /\ (pc[p] = "next_update" /\ loc[p].status \in {PENDING, CLOSED})
           => session'.current_question_id = session.current_question_id
        /\ (returned'.op = "next"
            /\ returned'.call.status \in {PENDING, CLOSED})
           => returned'.outcome \notin {"success", "No more questions"} ]_vars

\* C7: the effects of start become visible to other database sessions as
\* one atomic step: the commit that makes the session ACTIVE also carries
\* its start_time and its current question (the quiz's first question).
C7_StartIsAtomic ==
  [][ (session.status # ACTIVE /\ session'.status = ACTIVE)
        => /\ session'.start_time # NULL
           /\ session'.current_question_id # NULL
           /\ Position(session'.current_question_id) = 1 ]_vars

\* C8: in every reachable state, also after concurrent join calls by the
\* same student, there is at most one SessionParticipant row per
\* (session, student).
C8_OneParticipantPerStudent ==
  \A s \in Students : Cardinality(RowsOfStudent(participants, s)) <= 1

\* C9: join (with a known code) on a CLOSED session fails with the
\* session-closed outcome and creates no SessionParticipant; join on a
\* PENDING or ACTIVE session by a student who has not yet joined succeeds
\* and creates exactly one SessionParticipant.
C9_JoinClosedFailsOpenCreatesOne ==
  [][ LET s == returned'.call.student
      IN (returned'.op = "join" /\ returned'.outcome # "Invalid session code")
         => IF session.status = CLOSED
            THEN /\ returned'.outcome = "This session has ended"
                 /\ participants' = participants
            ELSE RowsOfStudent(participants, s) = {}
                 => /\ returned'.outcome = "Joined successfully"
                    /\ Len(participants') = Len(participants) + 1
                    /\ Cardinality(RowsOfStudent(participants', s)) = 1 ]_vars

\* a student joined while the session was open, and a join on the closed
\* session has just been refused
C9_Witness ==
  /\ returned.op = "join"
  /\ returned.outcome = "This session has ended"
  /\ session.status = CLOSED
  /\ Len(participants) = 1

\* C10: when a student who has already joined calls join again on the
\* non-closed session, the call succeeds with the 'Already joined' outcome
\* and the participant count is unchanged.
C10_SecondJoinIsIdempotent ==
  [][ (/\ returned'.op = "join"
       /\ returned'.outcome # "Invalid session code"
       /\ session.status # CLOSED
       /\ RowsOfStudent(participants, returned'.call.student) # {})
      => /\ returned'.outcome = "Already joined"
         /\ Len(participants') = Len(participants) ]_vars

\* the second join of a student has returned
C10_Witness ==
  /\ returned.op = "join"
  /\ returned.outcome = "Already joined"
  /\ session.status # CLOSED
  /\ Cardinality(RowsOfStudent(participants, returned.call.student)) = 1

\* C11: after a successful start on a PENDING session whose quiz has at
\* least one question, the status is ACTIVE, start_time is set and the
\* current question is the quiz question with the lowest question_order.
C11_StartEffects ==
  [][ (/\ returned'.op = "start"
       /\ returned'.outcome = "success"
       /\ returned'.call.status = PENDING)
      => /\ session'.status = ACTIVE
         /\ session'.start_time # NULL
         /\ session'.current_question_id \in QuestionIds
         /\ \A q \in QuestionIds :
              question_order[session'.current_question_id] <= question_order[q]
    ]_vars

\* a PENDING session has been started; its first question by order is not
\* the question with the lowest id
C11_Witness ==
  /\ returned.op = "start"
  /\ returned.outcome = "success"
  /\ returned.call.status = PENDING
  /\ session.status = ACTIVE
  /\ session.start_time = now
  /\ session.current_question_id # 1
  /\ Position(session.current_question_id) = 1

\* C12: start on a session whose quiz has zero questions returns the
\* empty-quiz failure and leaves the session unchanged: a PENDING session
\* stays PENDING, current_question stays null and start_time stays unset.
C12_StartOnEmptyQuiz ==
  [][ QuestionIds = {} =>
        /\ \A p \in Procs :
             pc[p] \in {"start_status", "start_question"} => session' = session
        /\ (returned'.op = "start" /\ returned'.outcome # "Session not found")
           => /\ returned'.outcome = "Quiz has no questions"
              /\ session' = session
              /\ returned'.call.status = PENDING
                 => /\ session'.status = PENDING
                    /\ session'.current_question_id = NULL
                    /\ session'.start_time = NULL ]_vars

\* start has been refused on a PENDING session of an empty quiz
C12_Witness ==
  /\ QuestionIds = {}
  /\ returned.op = "start"
  /\ returned.outcome = "Quiz has no questions"
  /\ returned.call.status = PENDING
  /\ session = QuizSession(PENDING, NULL, NULL, NULL)

\* C13: when the current question is the last question of the quiz,
\* advance returns the no-more-questions outcome and changes nothing:
\* current_question, status and end_time are unchanged (the session is not
\* closed).
C13_AdvanceAtLastQuestion ==
  [][ (/\ returned'.op = "next"
       /\ returned'.outcome # "Session not found"
       /\ QuestionIds # {}
       /\ Position(session.current_question_id) = Cardinality(QuestionIds))
      => /\ returned'.outcome = "No more questions"
         /\ session' = session ]_vars

\* advance has been refused at the last question of an ACTIVE session,
\* which is still open
C13_Witness ==
  /\ returned.op = "next"
  /\ returned.outcome = "No more questions"
  /\ QuestionIds # {}
  /\ Position(session.current_question_id) = Cardinality(QuestionIds)
  /\ session.status = ACTIVE
  /\ session.end_time = NULL

\* C14: every successful advance returns, and sets as current, the
\* question immediately following the previous current question in quiz
\* order; the returned question's order is never less than or equal to
\* the previous current question's order.
C14_AdvanceReturnsNext ==
  [][ (returned'.op = "next" /\ returned'.outcome = "success")
      => LET previous == Position(session.current_question_id)
             next == returned'.call.question
         IN /\ session'.current_question_id = next
            /\ next \in QuestionIds
            /\ question_order[next] > previous
            /\ \A q \in QuestionIds :
                 ~ (previous < question_order[q]
                    /\ question_order[q] < question_order[next]) ]_vars

\* advance has moved the pointer from the first question to the second
C14_Witness ==
  /\ returned.op = "next"
  /\ returned.outcome = "success"
  /\ returned.call.current_question_id # NULL
  /\ Position(returned.call.current_question_id) = 1
  /\ session.current_question_id = returned.call.question
  /\ Position(session.current_question_id) = 2

\* C15: end succeeds from any status of an existing session: after end
\* the status is CLOSED and end_time is set; end on the already-closed
\* session leaves status and end_time exactly as they were.
C15_EndIsIdempotent ==
  [][ (returned'.op = "end" /\ returned'.outcome # "Session not found")
      => /\ returned'.outcome = "success"
         /\ session'.status = CLOSED
         /\ session'.end_time # NULL
         /\ session.status = CLOSED
            => /\ session'.status = session.status
               /\ session'.end_time = session.end_time ]_vars

\* a second end has returned, later than the first one stamped end_time
C15_Witness ==
  /\ returned.op = "end"
  /\ returned.outcome = "success"
  /\ returned.call.status = CLOSED
  /\ session.status = CLOSED
  /\ session.end_time # NULL
  /\ session.end_time < now

\* C16: in every sequence of start and end operations start_time and
\* end_time are each stamped at most once: once one of them has a value,
\* no later operation changes it.
C16_StampedAtMostOnce ==
  [][ /\ session.start_time # NULL => session'.start_time = session.start_time
      /\ session.end_time # NULL => session'.end_time = session.end_time ]_vars

\* a session started and ended earlier has been started again, and both
\* timestamps are still the earlier ones
C16_Witness ==
  /\ returned.op = "start"
  /\ returned.outcome = "success"
  /\ returned.call.status = CLOSED
  /\ session.start_time # NULL
  /\ session.start_time < now
  /\ session.end_time # NULL
  /\ session.end_time < now

\* the answer a score call was made for, and the whole seconds from the
\* question's start to its submission, clamped to [0, time_limit]
ScoredAnswer == answers[returned'.call.existing]
ScoredLimit == time_limit[ScoredAnswer.question_id]
ScoredElapsed ==
  Max(0, Min(ScoredAnswer.submitted_at
               - question_start_time(session.start_time), ScoredLimit))

\* C17: for every answer, submission time and time limit in [10, 300] the
\* score is an integer in [0, 1000], and it is 0 whenever the answer has
\* no selected option or the selected option is not flagged correct.
C17_ScoreRange ==
  [][ returned'.op = "score"
      => /\ returned'.value \in 0..BASE_POINTS
         /\ (\/ ScoredAnswer.option_id = NULL
             \/ ~ is_correct[ScoredAnswer.option_id])
            => returned'.value = 0 ]_vars

\* an answer with a wrong option has been scored 0 at the longest time
\* limit, although it was submitted at once
C17_Witness ==
  /\ returned.op = "score"
  /\ returned.value = 0
  /\ answers[1].option_id # NULL
  /\ ~ is_correct[answers[1].option_id]
  /\ answers[1].submitted_at = question_start_time(session.start_time)
  /\ time_limit[1] = MAX_TIME_LIMIT

\* the penalty of an answer that uses the whole time limit:
\* BASE_POINTS * 0.3
FullPenalty == (BASE_POINTS * 3) \div 10

\* C18: for a correct answer the score equals
\* 1000 - floor(e * 300 / time_limit), e the elapsed whole seconds
\* clamped to [0, time_limit]: 1000 at elapsed 0 or before the start, 700
\* at elapsed time_limit or more, never below 700.
C18_CorrectAnswerScore ==
  [][ (/\ returned'.op = "score"
       /\ ScoredAnswer.option_id # NULL
       /\ is_correct[ScoredAnswer.option_id])
      => /\ returned'.value
              = BASE_POINTS
                - ((ScoredElapsed * FullPenalty) \div ScoredLimit)
         /\ ScoredElapsed = 0 => returned'.value = BASE_POINTS
         /\ ScoredElapsed = ScoredLimit
              => returned'.value = BASE_POINTS - FullPenalty
         /\ returned'.value >= BASE_POINTS - FullPenalty ]_vars

\* the ids of the students that have a participant row
ParticipantIds == {participants[i].student_id : i \in 1..Len(participants)}

\* the stored answer rows of a student
AnswersOf(student_id) ==
  {i \in 1..Len(answers) : answers[i].student_id = student_id}

\* C19: for a session with N participants and at least one question the
\* leaderboard has exactly N entries, one per participant, whose ranks are
\* 1..N in list order (no gaps, no shared ranks), in non-increasing order
\* of (total_points, percent_correct).
C19_LeaderboardRanks ==
  [][ (returned'.op = "leaderboard" /\ QuestionIds # {})
      => LET board == returned'.value
         IN /\ Len(board) = Cardinality(ParticipantIds)
            /\ \A s \in ParticipantIds :
                 Cardinality({i \in 1..Len(board) : board[i].student_id = s}) = 1
            /\ \A i \in 1..Len(board) : board[i].rank = i
            /\ \A i, j \in 1..Len(board) :
                 i < j =>
                   \/ board[i].total_points > board[j].total_points
                   \/ /\ board[i].total_points = board[j].total_points
                      /\ board[i].percent_correct >= board[j].percent_correct
    ]_vars

\* two participants with equal points have been ranked: the one who
\* joined second is first, on the higher percentage
C19_Witness ==
  /\ returned.op = "leaderboard"
  /\ Len(participants) = 2
  /\ Len(returned.value) = 2
  /\ returned.value[1].student_id = participants[2].student_id
  /\ returned.value[1].total_points = returned.value[2].total_points
  /\ returned.value[1].total_points > 0
  /\ returned.value[1].percent_correct > returned.value[2].percent_correct
  /\ returned.value[1].rank = 1
  /\ returned.value[2].rank = 2

\* the sum of the scores of a set of stored answers
RECURSIVE SumOfScores(_)
SumOfScores(rows) ==
  IF rows = {} THEN 0
  ELSE LET i == CHOOSE r \in rows : TRUE
       IN calculate_answer_score(answers[i],
                                 question_start_time(session.start_time),
                                 time_limit[answers[i].question_id])
          + SumOfScores(rows \ {i})

\* correct / answered * 100 to the nearest tenth, in tenths (no ratio of
\* counts below 16 lies halfway between two tenths)
NearestTenth(correct, answered) ==
  (2000 * correct + answered) \div (2 * answered)

\* C20: each leaderboard entry's total_points is the sum of the scores of
\* the participant's stored answers, correct_count the number of those
\* whose option is correct, answered_count their number, percent_correct
\* correct_count / answered_count * 100 rounded to one decimal, 0 without
\* answers, and the participation answered_count / total_questions.
C20_LeaderboardTotals ==
  [][ returned'.op = "leaderboard"
      => \A k \in 1..Len(returned'.value) :
           LET entry == returned'.value[k]
               rows == AnswersOf(entry.student_id)
               correct == {i \in rows : /\ answers[i].option_id # NULL
                                        /\ is_correct[answers[i].option_id]}
           IN /\ entry.total_points = SumOfScores(rows)
              /\ entry.correct_count = Cardinality(correct)
              /\ entry.answered_count = Cardinality(rows)
              /\ entry.percent_correct =
                   IF rows = {} THEN 0
                   ELSE NearestTenth(Cardinality(correct), Cardinality(rows))
              /\ entry.participation
                   = <<Cardinality(rows), Cardinality(QuestionIds)>> ]_vars

\* a participant with one correct answer 3 seconds into a 30 second limit
\* and one wrong answer has 970 points, 50.0 percent and participation
\* 2/2
C20_Witness ==
  /\ returned.op = "leaderboard"
  /\ \E k \in 1..Len(returned.value) :
       /\ returned.value[k].total_points = 970
       /\ returned.value[k].correct_count = 1
       /\ returned.value[k].answered_count = 2
       /\ returned.value[k].percent_correct = 500
       /\ \E i \in AnswersOf(returned.value[k].student_id) :
            /\ answers[i].submitted_at = session.start_time + 3
            /\ time_limit[answers[i].question_id] = 30
            /\ is_correct[answers[i].option_id]
       /\ returned.value[k].participation = <<2, 2>>

\* C21: the leaderboard order is deterministic: every leaderboard
\* computation over the same stored participants and answers returns the
\* entries in the same order and with the same ranks, also the entries
\* that tie on both total_points and percent_correct.
C21_LeaderboardDeterministic ==
  [][ (returned'.op = "leaderboard" /\ QuestionIds # {})
      => \A rows \in get_participants_by_session :
           returned'.value
             = leaderboard_of(rows, get_answers_by_session,
                              returned'.call.start_time,
                              Len(get_questions_by_quiz)) ]_vars

\* C22: a detailed_results computation that runs while answers are being
\* submitted is consistent in itself: the totals and the per-question
\* letters of a row come from the same set of answers, so a row shows a
\* letter for no more questions than its participation counts answers.
C22_DetailedResultsConsistent ==
  [][ returned'.op = "detailed_results"
      => \A i \in 1..Len(returned'.value) :
           Cardinality({k \in 1..Len(returned'.value[i].q) :
                          returned'.value[i].q[k] # "-"})
             <= returned'.value[i].participation[1] ]_vars

\* C23: a submit for a question is accepted and stored under its
\* (session, student, question) key whatever the session's pointer and
\* status are, also when it overlaps or follows an advance past the
\* question or the end of the session; it leaves the session row alone,
\* and advance and end never modify or delete a stored answer.
C23_SubmitAndLifecycleFrame ==
  [][ /\ returned'.op = "submit"
         => /\ returned'.outcome \in {"created", "updated"}
            /\ session' = session
            /\ \E i \in 1..Len(answers') :
                 /\ answers'[i].student_id = returned'.call.student
                 /\ answers'[i].question_id = returned'.call.question
                 /\ answers'[i].submitted_at = now
            /\ returned'.outcome = "created"
                 => answers' = Append(answers,
                                      StudentAnswer(returned'.call.student,
                                                    returned'.call.question,
                                                    returned'.call.option,
                                                    now))
      /\ returned'.op # "submit" => answers' = answers ]_vars

\* an answer to the first question is created after the session advanced
\* past it and was ended
C23_Witness ==
  /\ returned.op = "submit"
  /\ returned.outcome = "created"
  /\ session.status = CLOSED
  /\ current_idx(get_questions_by_quiz, returned.call.question)
       < current_idx(get_questions_by_quiz, session.current_question_id)
  /\ answers[Len(answers)].question_id = returned.call.question

\* C24: code generation terminates: a round that draws a stored code
\* counts one failed uniqueness check and, when that was the 100th, raises
\* the error, so when every drawn code is stored the error comes after
\* exactly 100 checks; a round that draws a free code returns that code
\* without a further draw.
C24_GenerationTerminates ==
  [][ /\ (returned'.op = "create" /\ returned'.outcome = "ValueError")
         => returned'.call.attempts = 100
      /\ \A p \in Procs :
           (pc[p] \in {"idle", "generate_session_code"} /\ pc'[p] # pc[p])
           => /\ loc[p].attempts < 100
              /\ pc'[p] = "create_session"
                   => /\ loc'[p].session_code \notin StoredCodes
                      /\ loc'[p].attempts = loc[p].attempts
              /\ pc'[p] = "generate_session_code"
                   => /\ loc'[p].session_code \in StoredCodes
                      /\ loc'[p].attempts = loc[p].attempts + 1
                      /\ loc'[p].attempts < 100
      /\ \A p \in Procs :
           (pc[p] = "generate_session_code" /\ pc'[p] = "idle")
           => /\ returned'.outcome = "ValueError"
              /\ loc[p].attempts = 99
              /\ returned'.call.session_code \in StoredCodes ]_vars

\* every drawn code is stored and the generation has raised its error
C24_Witness ==
  /\ returned.op = "create"
  /\ returned.outcome = "ValueError"
  /\ DrawnCodes \subseteq StoredCodes

\* C25: in every reachable state, also after overlapping create_session
\* calls that drew the same code, no two stored sessions share a join
\* code; every session is created PENDING, without a current question, a
\* start time or an end time.
C25_UniqueCodesCreatedPending ==
  /\ \A i, j \in 1..Len(quiz_sessions) :
       quiz_sessions[i].session_code = quiz_sessions[j].session_code => i = j
  /\ \A i \in 1..Len(quiz_sessions) :
       /\ quiz_sessions[i].session_code # SESSION_CODE
       /\ quiz_sessions[i].status = PENDING
       /\ quiz_sessions[i].current_question_id = NULL
       /\ quiz_sessions[i].start_time = NULL
       /\ quiz_sessions[i].end_time = NULL

\* two overlapping calls drew the same free code: one session holds it,
\* the commit of the other call was refused
C25_Witness ==
  /\ returned.op = "create"
  /\ returned.outcome = "IntegrityError"
  /\ \E i \in 1..Len(quiz_sessions) :
       quiz_sessions[i].session_code = returned.call.session_code

\* C26: the leaderboard measures the elapsed time of every answer from
\* the session's start_time (from created_at while that is unset), so a
\* correct answer submitted more than time_limit after the session's
\* start scores exactly 700 points.
C26_LateCorrectAnswerScores700 ==
  [][ (/\ returned'.op = "score"
       /\ ScoredAnswer.option_id # NULL
       /\ is_correct[ScoredAnswer.option_id]
       /\ ScoredAnswer.submitted_at
            - (IF session.start_time # NULL THEN session.start_time
                                            ELSE session.created_at)
          > ScoredLimit)
      => returned'.value = 700 ]_vars

\* a correct answer submitted later than the time limit after the start
\* of a started session has been scored 700
C26_Witness ==
  /\ returned.op = "score"
  /\ returned.value = 700
  /\ session.start_time # NULL
  /\ answers[1].option_id # NULL
  /\ is_correct[answers[1].option_id]
  /\ answers[1].submitted_at - session.start_time > time_limit[1]

\* C27: after a submit of the participation view has stored its answer,
\* the view's current_question_index has increased by one, or has become
\* the number of questions when the answered question was the last one.
C27_ViewMovesOnAfterSubmit ==
  [][ returned'.op = "view_submit"
      => LET student_id == returned'.call.student
             current_index == current_question_index[student_id]
         IN current_question_index'[student_id]
              = IF current_index < Len(get_questions_by_quiz) - 1
                THEN current_index + 1
                ELSE Len(get_questions_by_quiz) ]_vars

\* C28: every reachable state of the session is well-formed: end_time is
\* set exactly when the status is CLOSED, start_time is set whenever the
\* status is ACTIVE, and current_question is null whenever the status is
\* PENDING.
C28_SessionWellFormed ==
  /\ session.end_time # NULL <=> session.status = CLOSED
  /\ session.status = ACTIVE => session.start_time # NULL
  /\ session.status = PENDING => session.current_question_id = NULL

\* C29: after any sequence of join and submit operations every entry of
\* the leaderboard satisfies correct_count <= answered_count <=
\* total_questions and total_points <= 1000 * total_questions.
C29_EntryBounds ==
  [][ returned'.op = "leaderboard"
      => \A i \in 1..Len(returned'.value) :
           LET entry == returned'.value[i]
           IN /\ entry.correct_count <= entry.answered_count
              /\ entry.answered_count <= entry.total_questions
              /\ entry.total_points <= 1000 * entry.total_questions ]_vars

\* C30: on a session just started on a quiz with N >= 1 questions,
\* repeated advance succeeds exactly N - 1 times and visits every
\* question once in order: each successful advance moves from the k-th
\* question to the (k+1)-th, starting at the first, and once the N-th is
\* current every advance returns no-more-questions.
C30_AdvanceVisitsEachQuestionOnce ==
  [][ /\ Position(session.current_question_id) \in 1..Cardinality(QuestionIds)
      /\ (returned'.op = "next" /\ returned'.outcome # "Session not found")
         => LET questions == get_questions_by_quiz
                k == Position(session.current_question_id)
            IN IF k < Len(questions)
               THEN /\ returned'.outcome = "success"
                    /\ returned'.call.question = questions[k + 1]
                    /\ session'.current_question_id = questions[k + 1]
               ELSE /\ returned'.outcome = "No more questions"
                    /\ session' = session ]_vars

\* the last question of a quiz of more than two questions is current and
\* a further advance has been refused
C30_Witness ==
  /\ returned.op = "next"
  /\ returned.outcome = "No more questions"
  /\ Cardinality(QuestionIds) > 2
  /\ Position(session.current_question_id) = Cardinality(QuestionIds)


====
